---- MODULE Spec2Model ----
(***************************************************************************)
(* The adaptive training loop of src/v041.py (function train, with the     *)
(* helpers grow_sequence_length and init_param_groups_dict), as a state    *)
(* machine.  One action is one iteration of the while loop at line 578.    *)
(*                                                                         *)
(* Numbers.  microbatch_steps is a Python float; it is kept here as a      *)
(* fixed-point integer counted in units of 1/Unit (Unit = 10, so the clamp *)
(* floor 1e-1 is the integer 1).  epoch = tokens_seen/len(data['train'])   *)
(* is kept as the token count itself, and the threshold                    *)
(* settings['max_epochs_between_vals'] as the token count it stands for.   *)
(* The hyperparameters of the hyp dictionary are scaled down so that       *)
(* every schedule of the loop fires within a run of a dozen optimizer      *)
(* steps; the literal 10 of the training summary (line 595) is kept.       *)
(*                                                                         *)
(* Statements are taken to complete.  The read of grad_norm at line 605,   *)
(* which precedes the first assignment at line 642, is modelled as         *)
(* recording the marker Unmeasured in grad_norms.                          *)
(***************************************************************************)
EXTENDS Integers, Naturals, Sequences, FiniteSets, TLC

\* ------------------------------------------------------------------ bounds
\* hyp['opt']['total_train_steps'] (1000 in the source), scaled.
total_train_steps == 11
\* hyp['opt']['eval_every'] (50 in the source), scaled.
eval_every == 4
\* hyp['opt']['microbatch']['sample_every'] (5 in the source), scaled.
sample_every == 2
\* hyp['misc']['sequence_length']['growth_steps'] (80 in the source), scaled.
growth_steps == 3
\* settings['max_epochs_between_vals'] * len(data['train']), in tokens.
max_tokens_between_vals == 7
\* Largest tokens_per_batch_capacity, hyp[...]['max'] and hyp[...]['initial'] tried.
MaxCapacity == 6
MaxSequenceLength == 4
MaxInitialLength == 2
\* Largest fractional accumulation estimate explored, in units of 1/Unit.
MaxMicrobatchSteps == 25
\* The losses a micro-batch can return are 0..MaxLoss.
MaxLoss == 1
\* weight_decay_pow_base (line 541) depends on the parameter count of the
\* network; an integer stands for it.
weight_decay_pow_base == 2

\* --------------------------------------------------------- program constants
\* Denominator of the fixed-point representation of microbatch_steps.
Unit == 10
\* max(microbatch_steps, 1e-1), in units of 1/Unit.
ClampFloor == 1
\* hyp['opt']['microbatch']['scale_lr'] = 1e-1, in units of 1/Unit.
scale_lr == 1
\* hyp['opt']['weight_decay'] = 2.**4.
hyp_weight_decay == 16
\* The training summary is logged when curr_step % 10 == 0.
LogEvery == 10

\* grad_norm before the first call of get_grad_norm.
Unmeasured == -1
\* No evaluation has been appended to epochs_val yet.
NoEpoch == -1
\* No call of grow_sequence_length in the last iteration.
NoCall == [old_length |-> 0, new_length |-> 0, new_batchsize |-> 0, step |-> 0]

\* Measured/target gradient-norm ratios (ratio_diff, line 646), in 1/Unit.
RatioDiffs == {0, 10, 60, 460}
Losses == 0..MaxLoss

Max(a, b) == IF a >= b THEN a ELSE b
Min(a, b) == IF a <= b THEN a ELSE b

RECURSIVE Pow(_, _)
Pow(b, e) == IF e = 0 THEN 1 ELSE b * Pow(b, e - 1)

VARIABLES
    pc,                                \* "start", "loop", "done", "failed"
    tokens_per_batch_capacity,         \* line 74 / 154
    sequence_length_initial,           \* hyp['misc']['sequence_length']['initial']
    sequence_length_max,               \* hyp['misc']['sequence_length']['max']
    curr_step,
    curr_microbatch_step,
    tokens_seen,
    microbatch_steps,                  \* fractional estimate, in 1/Unit
    discrete_sampled_microbatch_steps,
    curr_length,
    curr_batchsize,
    grad_norm,                         \* last measured ratio, or Unmeasured
    weight_decay,                      \* opt.param_groups[i]['weight_decay'], i = 1..4
    epochs_train,                      \* tokens_seen at each training summary
    grad_norms,                        \* grad_norm at each training summary
    epochs_val_last,                   \* epochs_val[-1], or NoEpoch
    num_opt_steps,                     \* number of opt.step() calls
    scheduler_steps,                   \* number of scheduler.step() calls
    opt_step_wd,                       \* decay coefficient read by the last opt.step()
    loss,                              \* loss of the last micro-batch
    did_step,                          \* the last iteration ran the block at line 626
    did_eval,                          \* "no", "step" or "epoch": trigger of the eval of the last iteration
    grow_call,                         \* arguments and result of grow_sequence_length in the last iteration
    param_run,                         \* a call of init_param_groups_dict: the network and the groups built
    eval_run,                          \* calls of eval on fixed weights: generator state and values returned
    attn_run,                          \* a call of LatentAttentionBlock.forward: inputs and result
    args_run                           \* a call of get_args: the arguments and the outcome

train_vars == << pc, tokens_per_batch_capacity, sequence_length_initial, sequence_length_max,
                 curr_step, curr_microbatch_step, tokens_seen, microbatch_steps,
                 discrete_sampled_microbatch_steps, curr_length, curr_batchsize, grad_norm,
                 weight_decay, epochs_train, grad_norms, epochs_val_last, num_opt_steps,
                 scheduler_steps, opt_step_wd, loss, did_step, did_eval, grow_call >>

\* The variables of the functions studied apart from the training loop.
fn_vars == << param_run, eval_run, attn_run, args_run >>

vars == << train_vars, fn_vars >>

cfg_vars == << tokens_per_batch_capacity, sequence_length_initial, sequence_length_max >>

\* ---------------------------------------------------------------- helpers

\* No startup check.
StartupCheckSkipped(capacity, max_length) == TRUE

\* line 509-510: final_batchsize = capacity / max (true division); assert final_batchsize > 1.
StartupCheck(capacity, max_length) == capacity > max_length

\* line 508: curr_batchsize = tokens_per_batch_capacity // initial.
InitialBatchsize(capacity, initial) == capacity \div initial

\* The loop condition with <= in place of <.
LoopConditionInclusive(step) == step <= total_train_steps

\* line 578: while curr_step < hyp['opt']['total_train_steps'].
LoopCondition(step) == step < total_train_steps

\* The group test answering yes at every micro-batch.
GroupCompleteAlways(mb_step, depth) == TRUE

\* The group closed one micro-batch early.
GroupCompleteOneEarly(mb_step, depth) == (mb_step + 1) % depth = 0

\* line 590 / 595 / 626: curr_microbatch_step % discrete_sampled_microbatch_steps == 0.
GroupComplete(mb_step, depth) == mb_step % depth = 0

\* line 589-591: first operand of the or.
StepTrigger(mb_step, depth, step) ==
    GroupComplete(mb_step, depth) /\ step % eval_every = 0

\* line 592: (epoch - epochs_train[-1]) >= settings['max_epochs_between_vals'].
EpochTrigger(tokens, logged) ==
    (tokens - logged[Len(logged)]) >= max_tokens_between_vals

\* line 589-592: do_eval, with the short circuit of the or.
DoEval(mb_step, depth, step, tokens, logged) ==
    IF StepTrigger(mb_step, depth, step) THEN "step"
    ELSE IF EpochTrigger(tokens, logged) THEN "epoch"
    ELSE "no"

\* line 595: the training summary condition.
DoLog(mb_step, depth, step) ==
    step % LogEvery = 0 /\ GroupComplete(mb_step, depth)

\* line 632: 1./weight_decay_pow_base**loss * hyp['opt']['weight_decay'].
WeightDecayFromLoss(l) == hyp_weight_decay \div Pow(weight_decay_pow_base, l)

\* The growth guard without the test curr_step != 0.
ShouldGrowAtStepZero(step, length, max_length) ==
    step % growth_steps = 0 /\ length < max_length

\* The coefficient written to the second parameter group.
SetWeightDecayOfNextGroup(groups, l) ==
    [groups EXCEPT ![2] = WeightDecayFromLoss(l)]

\* line 632: opt.param_groups[0]['weight_decay'] = ...; the groups are in
\* the order of lines 373-376, the decay bucket first.
SetWeightDecay(groups, l) ==
    [groups EXCEPT ![1] = WeightDecayFromLoss(l)]

\* line 636: the guard of the sequence-length growth.
ShouldGrow(step, length, max_length) ==
    step % growth_steps = 0 /\ step # 0 /\ length < max_length

\* grow_sequence_length without the cap at the maximum length.
grow_sequence_length_uncapped(old_length, old_batchsize, max_length, capacity) ==
    LET new_length == 2 * old_length
        new_batchsize == capacity \div new_length
    IN << new_length, new_batchsize >>

\* grow_sequence_length keeping the batch size of the shorter length.
grow_sequence_length_same_batch(old_length, old_batchsize, max_length, capacity) ==
    LET new_length == Min(2 * old_length, max_length)
    IN << new_length, old_batchsize >>

\* line 402-409.
grow_sequence_length(old_length, old_batchsize, max_length, capacity) ==
    LET new_length == Min(2 * old_length, max_length)
        new_batchsize == capacity \div new_length
    IN << new_length, new_batchsize >>

\* The measurement at every optimizer step.
ShouldSampleAlways(step) == TRUE

\* line 641.
ShouldSample(step) == step % sample_every = 0

\* The update without the clamp of line 650.
UpdateMicrobatchStepsUnclamped(f, ratio_diff) ==
    (f * (Unit * Unit + sample_every * scale_lr * (ratio_diff - Unit))) \div (Unit * Unit)

\* line 649-650: multiplicative update and clamp, in fixed point.
UpdateMicrobatchSteps(f, ratio_diff) ==
    Max((f * (Unit * Unit + sample_every * scale_lr * (ratio_diff - Unit))) \div (Unit * Unit),
        ClampFloor)

\* line 653: base, dither_prob = divmod(microbatch_steps, 1).
DitherBase(f) == f \div Unit
DitherProb(f) == f % Unit

\* The outcomes torch.bernoulli(dither_prob) can return.
BernoulliOutcomes(f) == IF DitherProb(f) = 0 THEN {0} ELSE {0, 1}

\* The discretisation without the floor of 1.
DiscretizeNoFloor(f, b) == DitherBase(f) + b

\* The discretisation rounding up whatever the draw.
DiscretizeRoundUp(f, b) == Max(1, DitherBase(f) + 1)

\* line 656: max(1, int(base + bernoulli)).
Discretize(f, b) == Max(1, DitherBase(f) + b)

\* ------------------------------------------------------------------- Init
\* lines 497-513, for every configuration of capacity and sequence lengths.
TrainInit(capacities, max_lengths, initial_lengths) ==
    /\ pc = "start"
    /\ tokens_per_batch_capacity \in capacities
    /\ sequence_length_max \in max_lengths
    /\ sequence_length_initial \in initial_lengths
    /\ curr_step = 0
    /\ curr_microbatch_step = 0
    /\ tokens_seen = 0
    /\ microbatch_steps = 0
    /\ discrete_sampled_microbatch_steps = Max(1, 0)
    /\ curr_length = sequence_length_initial
    /\ curr_batchsize = InitialBatchsize(tokens_per_batch_capacity, sequence_length_initial)
    /\ grad_norm = Unmeasured
    /\ weight_decay = << hyp_weight_decay, 0, 0, 0 >>
    /\ epochs_train = << >>
    /\ grad_norms = << >>
    /\ epochs_val_last = NoEpoch
    /\ num_opt_steps = 0
    /\ scheduler_steps = 0
    /\ opt_step_wd = Unmeasured
    /\ loss = 0
    /\ did_step = FALSE
    /\ did_eval = "no"
    /\ grow_call = NoCall

\* No call of the function has been set up.
NotCalled == [status |-> "none"]

Init ==
    /\ TrainInit(1..MaxCapacity, 1..MaxSequenceLength, 1..MaxInitialLength)
    /\ param_run = NotCalled
    /\ eval_run = NotCalled
    /\ attn_run = NotCalled
    /\ args_run = NotCalled

\* ---------------------------------------------------------------- actions

\* line 510: the startup assertion.
TrainStart ==
    /\ pc = "start"
    /\ pc' = IF StartupCheck(tokens_per_batch_capacity, sequence_length_max)
             THEN "loop" ELSE "failed"
    /\ UNCHANGED << cfg_vars, curr_step, curr_microbatch_step, tokens_seen, microbatch_steps,
                    discrete_sampled_microbatch_steps, curr_length, curr_batchsize, grad_norm,
                    weight_decay, epochs_train, grad_norms, epochs_val_last, num_opt_steps,
                    scheduler_steps, opt_step_wd, loss, did_step, did_eval, grow_call,
                    fn_vars >>

\* lines 578-703: one iteration of the while loop.  l is the loss of the
\* micro-batch, r the measured/target ratio of the gradient norm, b the
\* Bernoulli draw.
TrainIteration ==
    /\ pc = "loop"
    /\ LoopCondition(curr_step)
    /\ \E l \in Losses, r \in RatioDiffs, b \in {0, 1} :
        LET tokens   == tokens_seen + curr_batchsize * curr_length
            group    == GroupComplete(curr_microbatch_step, discrete_sampled_microbatch_steps)
            do_eval  == DoEval(curr_microbatch_step, discrete_sampled_microbatch_steps,
                               curr_step, tokens, epochs_train)
            do_log   == DoLog(curr_microbatch_step, discrete_sampled_microbatch_steps, curr_step)
            grow     == group /\ ShouldGrow(curr_step, curr_length, sequence_length_max)
            grown    == grow_sequence_length(curr_length, curr_batchsize,
                                             sequence_length_max, tokens_per_batch_capacity)
            sample   == group /\ ShouldSample(curr_step)
            f        == IF sample THEN UpdateMicrobatchSteps(microbatch_steps, r)
                        ELSE microbatch_steps
        IN  /\ f <= MaxMicrobatchSteps
            /\ (~sample) => r = 0
            /\ IF group THEN b \in BernoulliOutcomes(f) ELSE b = 0
            /\ loss' = l
            /\ tokens_seen' = tokens
            /\ did_eval' = do_eval
            /\ did_step' = group
            /\ epochs_train' = IF do_log THEN Append(epochs_train, tokens) ELSE epochs_train
            /\ grad_norms' = IF do_log THEN Append(grad_norms, grad_norm) ELSE grad_norms
            /\ IF group
               THEN /\ opt_step_wd' = weight_decay[1]
                    /\ num_opt_steps' = num_opt_steps + 1
                    /\ weight_decay' = SetWeightDecay(weight_decay, l)
                    /\ scheduler_steps' = scheduler_steps + 1
                    /\ curr_length' = IF grow THEN grown[1] ELSE curr_length
                    /\ curr_batchsize' = IF grow THEN grown[2] ELSE curr_batchsize
                    /\ grow_call' = IF grow
                                    THEN [old_length |-> curr_length, new_length |-> grown[1],
                                          new_batchsize |-> grown[2], step |-> curr_step]
                                    ELSE NoCall
                    /\ grad_norm' = IF sample THEN r ELSE grad_norm
                    /\ microbatch_steps' = f
                    /\ discrete_sampled_microbatch_steps' = Discretize(f, b)
                    /\ curr_microbatch_step' = 0 + 1
                    /\ curr_step' = curr_step + 1
               ELSE /\ curr_microbatch_step' = curr_microbatch_step + 1
                    /\ grow_call' = NoCall
                    /\ UNCHANGED << opt_step_wd, num_opt_steps, weight_decay, scheduler_steps,
                                    curr_length, curr_batchsize, grad_norm, microbatch_steps,
                                    discrete_sampled_microbatch_steps, curr_step >>
            /\ epochs_val_last' = IF do_eval # "no" THEN tokens ELSE epochs_val_last
    /\ UNCHANGED << pc, cfg_vars, fn_vars >>

\* lines 578, 705: the loop condition fails and train returns.
TrainReturn ==
    /\ pc = "loop"
    /\ ~LoopCondition(curr_step)
    /\ pc' = "done"
    /\ UNCHANGED << cfg_vars, curr_step, curr_microbatch_step, tokens_seen, microbatch_steps,
                    discrete_sampled_microbatch_steps, curr_length, curr_batchsize, grad_norm,
                    weight_decay, epochs_train, grad_norms, epochs_val_last, num_opt_steps,
                    scheduler_steps, opt_step_wd, loss, did_step, did_eval, grow_call,
                    fn_vars >>

Next == TrainStart \/ TrainIteration \/ TrainReturn

Spec == Init /\ [][Next]_vars

\* The loop is a single thread of control: an enabled step is taken.
FairSpec == Init /\ [][Next]_vars /\ WF_vars(Next)

TypeOK ==
    /\ pc \in {"start", "loop", "done", "failed"}
    /\ curr_step \in 0..total_train_steps
    /\ discrete_sampled_microbatch_steps \in Nat
    /\ microbatch_steps \in 0..MaxMicrobatchSteps
\* lines 497-513 for initial lengths up to the largest capacity: the initial
\* length is read at line 507 without a check against capacity or maximum.
WideInit ==
    /\ TrainInit(1..MaxCapacity, 1..MaxSequenceLength, 1..MaxCapacity)
    /\ param_run = NotCalled
    /\ eval_run = NotCalled
    /\ attn_run = NotCalled
    /\ args_run = NotCalled

WideSpec == WideInit /\ [][Next]_vars

\* ---------------------------------------------- init_param_groups_dict

\* Largest number of parameters of a network tried.
MaxParams == 3

\* A parameter name is kept as the set of the keywords of lines 373-376 that
\* occur in it as substrings.  The names of make_net (lines 313-318, 241-247):
\* embedding.weight, norm.weight, expand and project, position_bias_mult
\* (which contains 'bias'), outputs.weight; and three names no network of
\* make_net has.
ParamNames ==
    { {"embedding"}, {"norm"}, {}, {"position_bias_mult", "bias"}, {"output"},
      {"bias"}, {"output", "embedding"}, {"decay", "norm"} }

Params == [name : ParamNames, requires_grad : BOOLEAN]

RECURSIVE SeqsUpTo(_, _)
SeqsUpTo(S, n) ==
    IF n = 0 THEN { << >> }
    ELSE LET shorter == SeqsUpTo(S, n - 1)
         IN shorter \cup { Append(q, x) : q \in { r \in shorter : Len(r) = n - 1 }, x \in S }

\* lines 373-376: the keys of param_groups in insertion order, each as the
\* tuple of keywords to_tuple (line 380) makes of it.
param_group_keys ==
    << {"decay"}, {"position_bias_mult"}, {"norm", "bias", "embedding"}, {"output"} >>

\* line 379: any(keyword in name for keyword in keyword_list).
in_list(name, keyword_list) == keyword_list \cap name # {}

SetMin(S) == CHOOSE x \in S : \A y \in S : x <= y
SetMax(S) == CHOOSE x \in S : \A y \in S : x >= y

\* The last matching key instead of the first.
TargetParamDictLastMatch(name) ==
    LET matches == { k \in 1..4 : in_list(name, param_group_keys[k]) }
    IN IF matches = {} THEN 1 ELSE SetMax(matches)

\* line 386: next(iter([k for k in keys if in_list(name, to_tuple(k))]), 'decay').
TargetParamDict(name) ==
    LET matches == { k \in 1..4 : in_list(name, param_group_keys[k]) }
    IN IF matches = {} THEN 1 ELSE SetMin(matches)

\* The test of line 385 left out.
TrainableAlways(p) == TRUE

\* line 385: if p.requires_grad.
Trainable(p) == p.requires_grad

\* lines 384-387: the loop over named_parameters, from parameter i on.
RECURSIVE AssignParams(_, _, _)
AssignParams(net, i, groups) ==
    IF i > Len(net) THEN groups
    ELSE IF Trainable(net[i])
         THEN LET k == TargetParamDict(net[i].name)
              IN AssignParams(net, i + 1, [groups EXCEPT ![k] = Append(groups[k], i)])
         ELSE AssignParams(net, i + 1, groups)

\* lines 363-389: the 'params' lists of the four groups, as positions in net.
init_param_groups_dict(net) ==
    AssignParams(net, 1, << << >>, << >>, << >>, << >> >>)

\* The training variables at rest while a function is studied on its own.
TrainIdle == TrainInit({MaxCapacity}, {MaxSequenceLength}, {MaxInitialLength})

ParamInit ==
    /\ TrainIdle
    /\ param_run \in { [status |-> "net", net |-> n, param_groups |-> << >>] :
                         n \in SeqsUpTo(Params, MaxParams) }
    /\ eval_run = NotCalled
    /\ attn_run = NotCalled
    /\ args_run = NotCalled

\* line 552: param_groups_dict = init_param_groups_dict(net, base_lr).
InitParamGroups ==
    /\ param_run.status = "net"
    /\ param_run' = [param_run EXCEPT !.status = "grouped",
                                      !.param_groups = init_param_groups_dict(param_run.net)]
    /\ UNCHANGED << train_vars, eval_run, attn_run, args_run >>

ParamNext == InitParamGroups

ParamSpec == ParamInit /\ [][ParamNext]_vars

\* ------------------------------------------------------ get_args, main

\* Largest depth and largest head count given on the command line.
MaxDepth == 2
MaxHeads == 3

\* lines 762-763: a depth or width below 1 becomes None.
None == 0

\* --width and --depth as typed (739-740: default -1), --model_scale (738),
\* with the value of log2(1 + scale) for the scales tried.
CliWidths == {-1, 64, 100, 128}
CliDepths == {-1} \cup 1..MaxDepth
ModelScales == {0, 1, 3}
Log2OnePlus(scale) == CASE scale = 0 -> 0 [] scale = 1 -> 1 [] scale = 3 -> 2

\* Python's round of x / d: to the nearest integer, a tie to the even one.
RoundDiv(x, d) ==
    LET q == x \div d
        r == x % d
    IN IF 2 * r < d THEN q
       ELSE IF 2 * r > d THEN q + 1
       ELSE IF q % 2 = 0 THEN q ELSE q + 1

\* line 77: to_nearest_64 = lambda x: round(x/64) * 64.
to_nearest_64(x) == RoundDiv(x, 64) * 64

\* line 778: assert (generator expression), message.  The operand is the
\* generator object, which is true whatever it would yield.
WidthAssertPasses(width, num_heads) == TRUE

ArgsInit ==
    /\ TrainIdle
    /\ param_run = NotCalled
    /\ eval_run = NotCalled
    /\ attn_run = NotCalled
    /\ args_run \in { [status |-> "parsed", message |-> "", model_scale |-> m, depth |-> d,
                       width |-> w, num_heads |-> h, setting_num |-> 0, built |-> << >>] :
                        m \in ModelScales, d \in CliDepths, w \in CliWidths,
                        h \in SeqsUpTo(1..MaxHeads, 2) \ { << >> } }

\* lines 759-783: CHECK & PREPROCESS ARGS.
GetArgs ==
    /\ args_run.status = "parsed"
    /\ LET depth == IF args_run.depth < 1 THEN None ELSE args_run.depth
           width == IF args_run.width < 1 THEN None ELSE args_run.width
           by_scale == depth = None \/ width = None
       IN args_run' =
            IF by_scale /\ ~(depth = None /\ width = None)
            THEN [args_run EXCEPT !.status = "rejected",
                                  !.message = "Set either both depth and width, or neither."]
            ELSE IF by_scale /\ ~(args_run.model_scale > 0)
            THEN [args_run EXCEPT !.status = "rejected",
                                  !.message = "Please set a positive model_scale"]
            ELSE IF ~WidthAssertPasses(width, args_run.num_heads)
            THEN [args_run EXCEPT !.status = "rejected",
                                  !.message = "Width must be divisible by the number of heads."]
            ELSE [args_run EXCEPT !.status = "returned", !.depth = depth, !.width = width]
    /\ UNCHANGED << train_vars, param_run, eval_run, attn_run >>

\* lines 786-794, 805-809, 125-144: main takes the next setting (one per head
\* count) and change_model_scale builds its network with make_net.
ChangeModelScale ==
    /\ args_run.status = "returned"
    /\ args_run.setting_num < Len(args_run.num_heads)
    /\ LET explicit == args_run.depth # None \/ args_run.width # None
           width == IF explicit THEN to_nearest_64(args_run.width)
                    ELSE to_nearest_64(384 * Log2OnePlus(args_run.model_scale))
           depth == IF explicit THEN args_run.depth
                    ELSE RoundDiv(8 * Log2OnePlus(args_run.model_scale), 1)
           heads == args_run.num_heads[args_run.setting_num + 1]
       IN args_run' = [args_run EXCEPT
                         !.setting_num = @ + 1,
                         !.built = Append(@, [depth |-> depth, width |-> width,
                                              num_heads |-> heads])]
    /\ UNCHANGED << train_vars, param_run, eval_run, attn_run >>

ArgsNext == GetArgs \/ ChangeModelScale

ArgsSpec == ArgsInit /\ [][ArgsNext]_vars

\* ------------------------------------------------- LatentAttentionBlock

\* lines 102-103.
qk_dim_div == 8
expand_factor == 2

\* The number of significand bits of torch.bfloat16 (line 214): every
\* integer of magnitude up to 2^8 is a bfloat16 value.
Bf16Bits == 8

\* The spacing of bfloat16 values around the natural number a.
RECURSIVE Bf16Ulp(_)
Bf16Ulp(a) == IF a < Pow(2, Bf16Bits) THEN 1 ELSE 2 * Bf16Ulp(a \div 2)

\* line 214: the conversion of an integer to bfloat16, to the nearest value,
\* a tie to the one with the even significand.
Bf16(x) ==
    LET a == IF x < 0 THEN 0 - x ELSE x
        u == Bf16Ulp(a)
        rounded == RoundDiv(a, u) * u
    IN IF x < 0 THEN 0 - rounded ELSE rounded

\* line 214: bias_range[k] of arange(-max+1, 1) in bfloat16.
bias_range(max, k) == Bf16(k - max + 1)

\* The difference taken the other way round.
position_bias_base_reversed(max, i, j) ==
    Bf16(bias_range(max, i) - bias_range(max, j))

\* line 215: bias_range.unsqueeze(0) - bias_range.unsqueeze(1), the column's
\* entry minus the row's, in bfloat16.
position_bias_base(max, i, j) ==
    Bf16(bias_range(max, j) - bias_range(max, i))

\* The upper triangle instead of the lower.
causal_mask_upper(i, j) == j >= i

\* line 217: torch.tril(torch.ones((max, max))).
causal_mask(i, j) == j <= i

\* line 216: the entry of negative_infinity_matrix_base.
negative_infinity == [masked |-> TRUE, bias |-> 0]

\* line 253: torch.where(causal_mask[:n, :n],
\* softplus(position_bias_mult) * position_bias_base[:n, :n], -inf[:n, :n]);
\* bias is the factor that multiplies the softplus.
attn_mask(max, n, i, j) ==
    IF causal_mask(i, j)
    THEN [masked |-> FALSE, bias |-> position_bias_base(max, i, j)]
    ELSE negative_infinity

\* A failed tensor operation, in place of a shape.
Raised == << >>

Last(shape) == shape[Len(shape)]
WithLast(shape, d) == [shape EXCEPT ![Len(shape)] = d]

\* F.linear(x, weight) with weight of shape (out_features, in_features).
Linear(shape, weight) ==
    IF shape = Raised \/ Last(shape) # weight[2] THEN Raised
    ELSE WithLast(shape, weight[1])

RECURSIVE SeqSum(_)
SeqSum(q) == IF q = << >> THEN 0 ELSE q[1] + SeqSum(Tail(q))

\* Tensor.split(sizes, dim=-1): piece k.
Split(shape, sizes, k) ==
    IF shape = Raised \/ SeqSum(sizes) # Last(shape) THEN Raised
    ELSE WithLast(shape, sizes[k])

\* An elementwise product of two tensors of one shape.
Mul(a, b) == IF a = Raised \/ b = Raised \/ a # b THEN Raised ELSE a

\* line 272: einops.rearrange(x, 'b n (h d) -> b h n d', h=num_heads).
Rearrange(shape, h) ==
    IF shape = Raised \/ Len(shape) # 3 THEN Raised
    ELSE IF shape[3] % h # 0 THEN Raised
    ELSE << shape[1], h, shape[2], shape[3] \div h >>

\* line 276: F.scaled_dot_product_attention(query, key, value, attn_mask)
\* with an (n, n) mask.
ScaledDotProductAttention(query, key, value, n) ==
    IF query = Raised \/ key = Raised \/ value = Raised THEN Raised
    ELSE IF \/ Len(query) # Len(key) \/ Len(key) # Len(value)
            \/ Last(query) # Last(key)
            \/ SubSeq(query, 1, Len(query) - 2) # SubSeq(key, 1, Len(key) - 2)
            \/ SubSeq(key, 1, Len(key) - 1) # SubSeq(value, 1, Len(value) - 1)
            \/ query[Len(query) - 1] # n
    THEN Raised
    ELSE WithLast(query, Last(value))

\* torch.cat([a, b], dim=-1).
Cat(a, b) ==
    IF a = Raised \/ b = Raised THEN Raised
    ELSE IF Len(a) # Len(b) \/ SubSeq(a, 1, Len(a) - 1) # SubSeq(b, 1, Len(b) - 1) THEN Raised
    ELSE WithLast(a, Last(a) + Last(b))

\* line 282: residual + out, of one shape or broadcast from the right.
Add(a, b) ==
    IF a = Raised \/ b = Raised THEN Raised
    ELSE LET r == Max(Len(a), Len(b))
             dim(q, k) == IF k + Len(q) - r >= 1 THEN q[k + Len(q) - r] ELSE 1
         IN IF \E k \in 1..r : dim(a, k) # dim(b, k) /\ dim(a, k) # 1 /\ dim(b, k) # 1
            THEN Raised
            ELSE [k \in 1..r |-> Max(dim(a, k), dim(b, k))]

\* lines 230-284: the shape forward returns for x of shape (batch, n, num_dim).
ForwardShape(x, num_dim, num_heads) ==
    LET qk_dim == num_dim \div qk_dim_div
        v_dim == num_dim
        expand_dim == num_dim * expand_factor
        expand == << 2 * qk_dim + 2 * expand_dim, num_dim >>
        project == << num_dim, expand_dim >>
        sizes == << qk_dim, qk_dim, expand_dim, expand_dim >>
        fused == Linear(x, expand)
        geglu == Mul(Split(fused, sizes, 3), Split(fused, sizes, 4))
        heads(t) == IF num_heads > 1 THEN Rearrange(t, num_heads) ELSE t
        query == heads(Split(fused, sizes, 1))
        key == heads(Split(fused, sizes, 2))
        geglu_local == heads(Split(geglu, << expand_dim - v_dim, v_dim >>, 1))
        geglu_attention_value == heads(Split(geglu, << expand_dim - v_dim, v_dim >>, 2))
        attention == ScaledDotProductAttention(query, key, geglu_attention_value, x[2])
        out == Linear(Cat(geglu_local, attention), project)
    IN Add(x, out)

Tokens == {0, 1}

\* lines 249-284: what the output at position i is computed from: the input
\* at i (residual, norm, the fused projection, the local half) and the
\* inputs at the positions j whose mask entry is not negative infinity
\* (their softmax weight is not zero).
ForwardAt(x, n, i) ==
    [residual |-> x[i],
     attended |-> [j \in { k \in 0..(n - 1) :
                             attn_mask(MaxSequenceLength, n, i, k) # negative_infinity }
                     |-> x[j]]]

Widths == {8, 64, 96}

AttnInit ==
    /\ TrainIdle
    /\ param_run = NotCalled
    /\ eval_run = NotCalled
    /\ args_run = NotCalled
    /\ \E n \in 1..MaxSequenceLength :
         attn_run \in { [status |-> "input", width |-> w, num_heads |-> h, batch |-> b,
                         n |-> n, x1 |-> x1, x2 |-> x2, shape |-> Raised,
                         out1 |-> << >>, out2 |-> << >>] :
                          w \in Widths, h \in 1..MaxHeads, b \in 1..2,
                          x1 \in [0..(n - 1) -> Tokens], x2 \in [0..(n - 1) -> Tokens] }

\* lines 249-284: forward on two inputs of one shape.
Forward ==
    /\ attn_run.status = "input"
    /\ LET shape == ForwardShape(<< attn_run.batch, attn_run.n, attn_run.width >>,
                                 attn_run.width, attn_run.num_heads)
       IN attn_run' =
            IF shape = Raised
            THEN [attn_run EXCEPT !.status = "raised"]
            ELSE [attn_run EXCEPT
                    !.status = "returned",
                    !.shape = shape,
                    !.out1 = [i \in 0..(attn_run.n - 1) |-> ForwardAt(attn_run.x1, attn_run.n, i)],
                    !.out2 = [i \in 0..(attn_run.n - 1) |-> ForwardAt(attn_run.x2, attn_run.n, i)]]
    /\ UNCHANGED << train_vars, param_run, eval_run, args_run >>

AttnNext == Forward

AttnSpec == AttnInit /\ [][AttnNext]_vars

\* Largest maximum sequence length the mask constants are built for.
MaxMaskLength == 258

\* The maximum sequence lengths tried, and for each the lengths x.shape[1]
\* the constants are sliced to: the short ones and the longest two.
MaskMaxima == 1..3 \cup { MaxMaskLength - 1, MaxMaskLength }
SlicedLengths(max) == { n \in 1..max : n <= 3 \/ n >= max - 1 }

MaskInit ==
    /\ TrainIdle
    /\ param_run = NotCalled
    /\ eval_run = NotCalled
    /\ args_run = NotCalled
    /\ \E max \in MaskMaxima : \E n \in SlicedLengths(max) : \E i \in 0..(n - 1) :
         attn_run = [status |-> "input", max |-> max, n |-> n, i |-> i, row |-> << >>]

\* line 253: row i of attn_mask for an input of length n.
MakeAttnMask ==
    /\ attn_run.status = "input"
    /\ attn_run' = [attn_run EXCEPT
                      !.status = "masked",
                      !.row = [j \in 0..(attn_run.n - 1) |->
                                 attn_mask(attn_run.max, attn_run.n, attn_run.i, j)]]
    /\ UNCHANGED << train_vars, param_run, eval_run, args_run >>

MaskNext == MakeAttnMask

MaskSpec == MaskInit /\ [][MaskNext]_vars

\* ----------------------------------------------------- get_batch, eval

\* The number of states of the random generator, the largest seed, the
\* number of tokens to evaluate over (line 97) and of eval calls recorded.
GeneratorPeriod == 16
MaxSeed == 3
num_eval_tokens == 8
MaxEvalCalls == 2

\* data['eval'], a sequence of tokens.
EvalData == << 0, 1, 1, 0, 0, 0, 1, 1 >>

\* The networks: the token each predicts (argmax) after an input token.
Nets == [Tokens -> Tokens]

\* line 828: torch.manual_seed(seed) sets the state of the global generator.
manual_seed(seed) == seed % GeneratorPeriod

\* A draw takes the global generator to its next state.
NextGenerator(g) == (5 * g + 3) % GeneratorPeriod

\* A draw that also depends on how many calls came before.
randint_unseeded(g, high) == (g + Len(eval_run.calls)) % high

\* line 337: one element of torch.randint(high, ...), from the generator's state.
randint(g, high) == g % high

\* lines 336-343, 468-471: one sequence of a batch drawn at generator state
\* g: inputs and targets are the sampled tokens and the tokens one further;
\* the number of positions where the network's prediction is the target.
CorrectInSequence(net, g, length) ==
    LET start == randint(g, Len(EvalData) - length - 1)
    IN Cardinality({ k \in 1..length : net[EvalData[start + k]] = EvalData[start + k + 1] })

\* lines 336-343: the batchsize sequences of one batch, drawn one after another.
RECURSIVE CorrectInBatch(_, _, _, _)
CorrectInBatch(net, g, batchsize, length) ==
    IF batchsize = 0 THEN 0
    ELSE CorrectInSequence(net, g, length)
           + CorrectInBatch(net, NextGenerator(g), batchsize - 1, length)

RECURSIVE Advance(_, _)
Advance(g, draws) == IF draws = 0 THEN g ELSE Advance(NextGenerator(g), draws - 1)

\* lines 467-471: the loop over num_eval_steps batches.
RECURSIVE CorrectInSteps(_, _, _, _, _)
CorrectInSteps(net, g, steps, batchsize, length) ==
    IF steps = 0 THEN 0
    ELSE CorrectInBatch(net, g, batchsize, length)
           + CorrectInSteps(net, Advance(g, batchsize), steps - 1, batchsize, length)

\* line 458.
eval_batchsize == Max((tokens_per_batch_capacity \div sequence_length_max) \div 16, 1)

\* lines 459-460.
num_eval_steps == (num_eval_tokens \div sequence_length_max) \div eval_batchsize

\* lines 451-475: val_acc as the number of correct predictions, val_loss as
\* the number of missed ones, of the tokens evaluated.
eval(net, g) ==
    LET correct == CorrectInSteps(net, g, num_eval_steps, eval_batchsize, sequence_length_max)
        tokens == num_eval_steps * eval_batchsize * sequence_length_max
    IN [val_acc |-> correct, val_loss |-> tokens - correct]

EvalInit ==
    /\ TrainIdle
    /\ param_run = NotCalled
    /\ attn_run = NotCalled
    /\ args_run = NotCalled
    /\ eval_run \in { [status |-> "seeded", net |-> w, generator |-> manual_seed(seed),
                       calls |-> << >>] : w \in Nets, seed \in 0..MaxSeed }

\* line 828: torch.manual_seed(seed).
ManualSeed ==
    /\ eval_run.status = "seeded"
    /\ \E seed \in 0..MaxSeed :
         eval_run' = [eval_run EXCEPT !.generator = manual_seed(seed)]
    /\ UNCHANGED << train_vars, param_run, attn_run, args_run >>

\* lines 579-632: a training step draws a batch and changes the weights; the
\* calls recorded are those since the last change.
TrainStep ==
    /\ eval_run.status = "seeded"
    /\ \E w \in Nets \ { eval_run.net } :
         eval_run' = [eval_run EXCEPT !.net = w,
                                      !.generator = Advance(@, curr_batchsize),
                                      !.calls = << >>]
    /\ UNCHANGED << train_vars, param_run, attn_run, args_run >>

\* lines 451-475, 672: eval(net).
EvalCall ==
    /\ eval_run.status = "seeded"
    /\ Len(eval_run.calls) < MaxEvalCalls
    /\ LET result == eval(eval_run.net, eval_run.generator)
       IN eval_run' = [eval_run EXCEPT
                         !.generator = Advance(@, num_eval_steps * eval_batchsize),
                         !.calls = Append(@, [generator |-> eval_run.generator,
                                              val_acc |-> result.val_acc,
                                              val_loss |-> result.val_loss])]
    /\ UNCHANGED << train_vars, param_run, attn_run, args_run >>

EvalNext == ManualSeed \/ TrainStep \/ EvalCall

EvalSpec == EvalInit /\ [][EvalNext]_vars

\* ------------------------------------------------------------------ claims

\* C1: an evaluation runs only in an iteration that has just completed a
\* full accumulation group (the optimizer step was applied in it), whichever
\* trigger fired.
EvalOnlyAfterFullGroup == (did_eval # "no") => did_step

\* C2: the optimizer step of an iteration uses the decay coefficient derived
\* from the loss of the micro-batch that completed the group.
DecaySetBeforeStep == did_step => opt_step_wd = WeightDecayFromLoss(loss)

\* C3, as stated: for any configured initial and maximum length, the current
\* sequence length is at most the maximum in every state and never decreases.
LengthBoundedAndMonotone ==
    /\ [](curr_length <= sequence_length_max)
    /\ [][curr_length' >= curr_length]_vars

\* C3, amended: when the configured initial length is at most the configured
\* maximum, the current sequence length is at most the maximum in every
\* state; for any configuration it never decreases.
LengthBoundedWhenInitialFits ==
    /\ [](sequence_length_initial <= sequence_length_max
            => curr_length <= sequence_length_max)
    /\ [][curr_length' >= curr_length]_vars

\* C3 witness: a growth whose doubling was cut back to the maximum.
GrownToCappedMaximum ==
    /\ grow_call # NoCall
    /\ 2 * grow_call.old_length > sequence_length_max
    /\ curr_length = sequence_length_max

\* C4: current batch size times current sequence length is at most the token
\* capacity, initially and after every growth.
BatchWithinCapacity ==
    curr_batchsize * curr_length <= tokens_per_batch_capacity

\* C4 witness: a growth that changed the batch size.
GrownWithSmallerBatch ==
    /\ grow_call # NoCall
    /\ curr_batchsize = grow_call.new_batchsize
    /\ curr_batchsize < InitialBatchsize(tokens_per_batch_capacity, sequence_length_initial)

\* C5: a call of grow_sequence_length returns min(2*old, L) and C // new_length,
\* and the loop calls it neither at length L, nor at step 0, nor at a step
\* that is no multiple of growth_steps.
GrowContract ==
    grow_call # NoCall =>
        /\ grow_call.new_length =
               (IF 2 * grow_call.old_length <= sequence_length_max
                THEN 2 * grow_call.old_length ELSE sequence_length_max)
        /\ grow_call.new_batchsize = tokens_per_batch_capacity \div grow_call.new_length
        /\ grow_call.old_length # sequence_length_max
        /\ grow_call.step # 0
        /\ grow_call.step % growth_steps = 0

\* C5 witness: a second growth, at a later multiple of growth_steps.
GrownTwice ==
    /\ grow_call # NoCall
    /\ grow_call.step > growth_steps
    /\ grow_call.old_length > sequence_length_initial

\* C6: the discrete accumulation depth is an integer >= 1 in every state.
DepthAtLeastOne ==
    /\ discrete_sampled_microbatch_steps \in Nat
    /\ discrete_sampled_microbatch_steps >= 1

\* C6 witness: a re-draw at the clamp floor with the Bernoulli draw 0.
RedrawnAtClampFloor ==
    /\ did_step
    /\ microbatch_steps = ClampFloor
    /\ discrete_sampled_microbatch_steps = 1

\* Expected value of the drawn depth, times Unit: the draw is 1 with
\* probability DitherProb(f)/Unit.
ExpectedDepth(f) ==
    (Unit - DitherProb(f)) * Discretize(f, 0) + DitherProb(f) * Discretize(f, 1)

\* The depth drawn is floor(f) or floor(f)+1, the latter only with a
\* nonzero fractional part, and its expected value is f.
DrawMatchesEstimate(f, depth) ==
    /\ ExpectedDepth(f) = f
    /\ depth \in {DitherBase(f), DitherBase(f) + 1}
    /\ depth = DitherBase(f) + 1 => DitherProb(f) > 0

\* C7, as stated: for every estimate f >= 0.1 the drawn depth is floor(f) or
\* floor(f)+1 with expected value exactly f.
ExpectedDepthIsEstimate ==
    microbatch_steps >= ClampFloor =>
        DrawMatchesEstimate(microbatch_steps, discrete_sampled_microbatch_steps)

\* C7, amended: for every estimate f >= 1 the drawn depth is floor(f) or
\* floor(f)+1 with expected value exactly f (below 1 the depth is always 1).
ExpectedDepthIsEstimateFromOne ==
    microbatch_steps >= Unit =>
        DrawMatchesEstimate(microbatch_steps, discrete_sampled_microbatch_steps)

\* C7 witness: an estimate above 1 with a fractional part, rounded up.
RoundedUpAboveOne ==
    /\ did_step
    /\ microbatch_steps > Unit
    /\ DitherProb(microbatch_steps) > 0
    /\ discrete_sampled_microbatch_steps = DitherBase(microbatch_steps) + 1

\* C8: an epoch-triggered evaluation fires only when the epoch count has
\* advanced by the threshold since the last evaluation.
EpochEvalOnlyPastThreshold ==
    [][did_eval' = "epoch" =>
          /\ epochs_val_last # NoEpoch
          /\ tokens_seen' - epochs_val_last >= max_tokens_between_vals]_vars

\* C9: training starts only when token capacity // maximum length exceeds 1,
\* and fails at startup whenever it does not.
StartsOnlyAboveOne ==
    /\ pc \in {"loop", "done"} => tokens_per_batch_capacity \div sequence_length_max > 1
    /\ pc = "failed" => ~(tokens_per_batch_capacity \div sequence_length_max > 1)

OnlyDecayBucketDecays ==
    /\ \A i \in 2..4 : weight_decay[i] = 0
    /\ did_step => weight_decay[1] = WeightDecayFromLoss(loss)

\* C19 witness: an optimizer step has moved the decay coefficient off its
\* configured value.
DecayCoefficientRecomputed ==
    /\ did_step
    /\ weight_decay[1] # hyp_weight_decay

\* C20: an iteration that does not complete an accumulation group leaves the
\* optimization-step counter, the schedule position, the weight-decay
\* coefficients, the sequence length, the batch size, the fractional
\* estimate and the discrete depth unchanged; the micro-step counter rises
\* by one and tokens_seen by one micro-batch.
AccumulationMutatesNoOptimizerState ==
    [][(/\ pc = "loop"
        /\ pc' = "loop"
        /\ curr_microbatch_step % discrete_sampled_microbatch_steps # 0)
       => /\ UNCHANGED << curr_step, scheduler_steps, num_opt_steps, weight_decay,
                          opt_step_wd, curr_length, curr_batchsize, microbatch_steps,
                          discrete_sampled_microbatch_steps, grad_norm >>
          /\ curr_microbatch_step' = curr_microbatch_step + 1
          /\ tokens_seen' = tokens_seen + curr_batchsize * curr_length]_vars

\* C20 witness: an iteration has accumulated without stepping.
AccumulatedWithoutStep ==
    /\ pc = "loop"
    /\ ~did_step
    /\ curr_microbatch_step >= 2
    /\ curr_microbatch_step <= discrete_sampled_microbatch_steps
\* Number of positions of the sequence q that hold x.
Occurrences(q, x) == Cardinality({ j \in 1..Len(q) : q[j] = x })

\* Number of times parameter i of the run's network appears in its groups.
TimesGrouped(run, i) ==
    Occurrences(run.param_groups[1], i) + Occurrences(run.param_groups[2], i)
      + Occurrences(run.param_groups[3], i) + Occurrences(run.param_groups[4], i)

\* The bucket holding parameter i.
BucketOf(run, i) ==
    CHOOSE k \in 1..4 : Occurrences(run.param_groups[k], i) > 0

\* C11: every trainable parameter is in exactly one of the four buckets, a
\* parameter that is not trainable in none, and the bucket sizes sum to the
\* number of trainable parameters.
EveryTrainableParamInOneBucket ==
    param_run.status = "grouped" =>
        LET net == param_run.net
            trainable == { i \in 1..Len(net) : net[i].requires_grad }
        IN /\ \A i \in 1..Len(net) :
                  TimesGrouped(param_run, i) = (IF i \in trainable THEN 1 ELSE 0)
           /\ Len(param_run.param_groups[1]) + Len(param_run.param_groups[2])
                + Len(param_run.param_groups[3]) + Len(param_run.param_groups[4])
                = Cardinality(trainable)

\* C11 witness: a network with a frozen parameter and trainable parameters
\* in two buckets has been grouped.
GroupedMixedNetwork ==
    /\ param_run.status = "grouped"
    /\ \E i \in 1..Len(param_run.net) : ~param_run.net[i].requires_grad
    /\ param_run.param_groups[1] # << >>
    /\ param_run.param_groups[3] # << >>

\* The bucket the stated priority order gives a name: position-bias
\* multiplier, then norm/bias/embedding, then output, then decay.
StatedBucket(name) ==
    IF "position_bias_mult" \in name THEN 2
    ELSE IF name \cap {"norm", "bias", "embedding"} # {} THEN 3
    ELSE IF "output" \in name THEN 4
    ELSE 1

\* C12, as stated: every parameter name gets the bucket of the first matching
\* rule in the order position-bias > norm/bias/embedding > output > decay.
BucketByStatedPriority ==
    param_run.status = "grouped" =>
        \A i \in 1..Len(param_run.net) :
            param_run.net[i].requires_grad =>
                BucketOf(param_run, i) = StatedBucket(param_run.net[i].name)

\* C12, amended: a name containing 'decay' goes to the decay bucket; every
\* other name gets the bucket of the first matching rule in the order
\* position-bias > norm/bias/embedding > output > decay.
BucketByPriorityAfterDecay ==
    param_run.status = "grouped" =>
        \A i \in 1..Len(param_run.net) :
            param_run.net[i].requires_grad =>
                BucketOf(param_run, i) =
                    (IF "decay" \in param_run.net[i].name THEN 1
                     ELSE StatedBucket(param_run.net[i].name))

\* C12 witness: a position_bias_mult sits in the position-bias bucket and a
\* name matching no rule in the decay bucket.
GroupedPositionBiasAndDefault ==
    /\ param_run.status = "grouped"
    /\ \E i, j \in 1..Len(param_run.net) :
          /\ param_run.net[i].name = {"position_bias_mult", "bias"}
          /\ Occurrences(param_run.param_groups[2], i) = 1
          /\ param_run.net[j].name = {}
          /\ Occurrences(param_run.param_groups[1], j) = 1
\* C17, as stated: once get_args has run, a configuration whose requested
\* width is not divisible by one of the requested head counts is rejected and
\* no model has been built for it.
IndivisibleWidthRejected ==
    (/\ args_run.status # "none"
     /\ args_run.status # "parsed"
     /\ args_run.width >= 1
     /\ \E k \in 1..Len(args_run.num_heads) : args_run.width % args_run.num_heads[k] # 0)
        => /\ args_run.status = "rejected"
           /\ args_run.built = << >>

\* C16, as stated: for every width and every head count dividing it, forward
\* returns an output of the shape of its input.
ForwardKeepsShape ==
    (/\ attn_run.status \in {"returned", "raised"}
     /\ attn_run.width % attn_run.num_heads = 0)
        => /\ attn_run.status = "returned"
           /\ attn_run.shape = << attn_run.batch, attn_run.n, attn_run.width >>

\* C14: the block's output at position i is the same for two inputs that
\* agree on positions 0..i, wherever they differ after i.
OutputDependsOnlyOnEarlierPositions ==
    attn_run.status = "returned" =>
        \A i \in 0..(attn_run.n - 1) :
            (\A j \in 0..i : attn_run.x1[j] = attn_run.x2[j])
                => attn_run.out1[i] = attn_run.out2[i]

\* C14 witness: forward has returned for two inputs that agree up to a
\* position and differ after it, with outputs that differ later on.
ForwardOnInputsDifferingLater ==
    /\ attn_run.status = "returned"
    /\ \E i \in 0..(attn_run.n - 2) :
          /\ \A j \in 0..i : attn_run.x1[j] = attn_run.x2[j]
          /\ attn_run.x1[i + 1] # attn_run.x2[i + 1]
          /\ attn_run.out1[i] = attn_run.out2[i]
          /\ attn_run.out1[i + 1] # attn_run.out2[i + 1]

\* C15, as stated: the mask entry at row i, column j is negative infinity
\* where j > i and softplus(scale) times i - j where j <= i.
MaskIsScaledRowMinusColumn ==
    attn_run.status = "masked" =>
        \A j \in 0..(attn_run.n - 1) :
            attn_run.row[j] =
                (IF j > attn_run.i THEN negative_infinity
                 ELSE [masked |-> FALSE, bias |-> attn_run.i - j])

\* Rounding to the nearest multiple of u, a tie to the even multiple.
NearestMultiple(x, u) ==
    CHOOSE m \in (x - u)..(x + u) :
        /\ m % u = 0
        /\ \A k \in (x - u)..(x + u) :
              k % u = 0 =>
                \/ Max(m - x, x - m) < Max(k - x, x - k)
                \/ k = m
                \/ (Max(m - x, x - m) = Max(k - x, x - k) /\ (m \div u) % 2 = 0)

\* C15, amended: the mask entry is negative infinity where j > i, and where
\* j <= i softplus(scale) times d(i,j), with d(i,j) = r(r(j - max + 1) -
\* r(i - max + 1)), r rounding to bfloat16 (here: offsets below 2^9, rounded
\* to the nearest even number past 2^8, a tie to the multiple of 4): d is
\* never positive, and equals j - i for every maximum length up to 2^8 + 1.
MaskIsScaledColumnMinusRow ==
    attn_run.status = "masked" =>
        LET max == attn_run.max
            i == attn_run.i
            exact == Pow(2, Bf16Bits)
            r(x) == IF 0 - x <= exact THEN x ELSE NearestMultiple(x, 2)
        IN \A j \in 0..(attn_run.n - 1) :
              IF j > i THEN attn_run.row[j] = negative_infinity
              ELSE /\ attn_run.row[j].masked = FALSE
                   /\ attn_run.row[j].bias = r(r(j - max + 1) - r(i - max + 1))
                   /\ attn_run.row[j].bias <= 0
                   /\ max <= exact + 1 => attn_run.row[j].bias = j - i

\* C15 witness: row 1 of a mask sliced to three or more positions has been
\* built for a maximum length past the exact range: its entry before the
\* diagonal is not masked and rounded to 0, the one after the diagonal masked.
MaskRowBuiltPastExactRange ==
    /\ attn_run.status = "masked"
    /\ attn_run.max > Pow(2, Bf16Bits) + 1
    /\ attn_run.i = 1
    /\ attn_run.n >= 3
    /\ attn_run.row[0] = [masked |-> FALSE, bias |-> 0]
    /\ attn_run.row[1] = [masked |-> FALSE, bias |-> 0]
    /\ attn_run.row[2] = negative_infinity
EstimateAtLeastClampFloor ==
    num_opt_steps >= 1 => microbatch_steps >= ClampFloor

\* C21 witness: a resampling with a ratio of 0 has left the estimate at the
\* floor, after several optimizer steps.
ClampedAfterZeroRatio ==
    /\ did_step
    /\ num_opt_steps >= 3
    /\ ShouldSample(curr_step - 1)
    /\ grad_norm = 0
    /\ microbatch_steps = ClampFloor

\* C22: the fractional estimate and the recorded gradient norm change only
\* in an iteration at a group boundary whose step counter is a multiple of
\* sample_every; every optimizer step re-draws the integer depth from the
\* estimate.
EstimateChangesOnlyWhenSampled ==
    [][/\ (microbatch_steps' # microbatch_steps \/ grad_norm' # grad_norm)
            => /\ pc = "loop"
               /\ curr_microbatch_step % discrete_sampled_microbatch_steps = 0
               /\ curr_step % sample_every = 0
       /\ curr_step' # curr_step
            => \E b \in {0, 1} :
                  discrete_sampled_microbatch_steps' = Max(1, (microbatch_steps' \div Unit) + b)
      ]_vars

\* C22 witness: an optimizer step at a counter that is no multiple of
\* sample_every has drawn the depth above the integer part of an estimate
\* measured earlier.
RedrawnWithoutSampling ==
    /\ did_step
    /\ (curr_step - 1) % sample_every # 0
    /\ microbatch_steps > Unit
    /\ discrete_sampled_microbatch_steps = (microbatch_steps \div Unit) + 1

\* C23: the first optimizer step follows exactly one micro-batch; after it,
\* the micro-batch counter runs from 1 to the depth d drawn at the last
\* optimizer step, the next optimizer step is taken exactly at the d-th
\* micro-batch, and the micro-batches before it leave the depth (the loss
\* divisor), the sequence length and the batch size as they are.
GroupHasDepthMicrobatches ==
    [][(pc = "loop" /\ pc' = "loop") =>
          IF num_opt_steps = 0
          THEN /\ curr_microbatch_step = 0
               /\ num_opt_steps' = 1
               /\ curr_microbatch_step' = 1
          ELSE /\ curr_microbatch_step \in 1..discrete_sampled_microbatch_steps
               /\ (num_opt_steps' = num_opt_steps + 1)
                     <=> (curr_microbatch_step = discrete_sampled_microbatch_steps)
               /\ IF curr_microbatch_step = discrete_sampled_microbatch_steps
                  THEN curr_microbatch_step' = 1
                  ELSE /\ num_opt_steps' = num_opt_steps
                       /\ curr_microbatch_step' = curr_microbatch_step + 1
                       /\ UNCHANGED << discrete_sampled_microbatch_steps, curr_length,
                                       curr_batchsize >>
      ]_vars

\* C23 witness: the last micro-batch of a group of depth two or more is
\* about to be processed, after earlier optimizer steps.
LastMicrobatchOfDeepGroup ==
    /\ pc = "loop"
    /\ num_opt_steps >= 2
    /\ discrete_sampled_microbatch_steps >= 2
    /\ curr_microbatch_step = discrete_sampled_microbatch_steps
    /\ ~did_step

\* C24, as stated: every gradient norm in the training records was measured
\* before it was recorded.
LoggedGradNormMeasured ==
    \A k \in 1..Len(grad_norms) : grad_norms[k] # Unmeasured
\* C25, as stated: once the startup check has passed, the current batch size
\* is at least 1, for every capacity, initial length and maximum length.
BatchsizeAtLeastOne ==
    pc \in {"loop", "done"} => curr_batchsize >= 1

\* C25, amended: once the startup check has passed, the current batch size is
\* at least 1 provided the initial length is at most the token capacity.
BatchsizeAtLeastOneWhenInitialFits ==
    (pc \in {"loop", "done"} /\ sequence_length_initial <= tokens_per_batch_capacity)
        => curr_batchsize >= 1

\* C25 witness: the sequence length has grown to the maximum and the batch
\* size has shrunk to 1.
GrownToBatchsizeOne ==
    /\ pc = "loop"
    /\ grow_call # NoCall
    /\ curr_length = sequence_length_max
    /\ grow_call.new_batchsize < InitialBatchsize(tokens_per_batch_capacity,
                                                  sequence_length_initial)
    /\ curr_batchsize = 1
====
